---- MODULE Spec2Model ----
(***************************************************************************)
(* The movie service (src/movie-service/main.py): a PostgreSQL table       *)
(* "movies" fronted by a Redis cache, cache-aside.  Every handler runs     *)
(* its statements and its cache calls inside one transaction of its own    *)
(* connection (get_db_connection), which commits when the handler body     *)
(* ends.  Several workers serve requests at once; a step of the model is   *)
(* one store call or one cache call of one request.                        *)
(***************************************************************************)
EXTENDS Integers, Sequences, FiniteSets, TLC

\* ------------------------------------------------------------- bounds
NumWorkers == 2
\* one request at a time (SeqSpec): ids the sequence issues, ids of a batch
MaxId == 2
MaxBatch == 3
\* requests in flight together (Spec)
ConcMaxId == 1
ConcMaxBatch == 1
\* ids of a batch next to a cached listing (BatchListSpec)
ListMaxBatch == 2
\* steps of the clock in one time to live (TtlSpec)
TicksPerTtl == 2
\* requests the watchlist service serves at once (WlSpec)
WlWorkers == 2
\* ids the sequence of watchlist.id issues
MaxEntryId == 2

\* ---------------------------------------------------------- constants
CACHE_TTL == 3600

Procs == 1..NumWorkers
\* ids a request may name: every id the sequence can issue, and one it never issues
ReqIds == 1..(IF MaxId > ConcMaxId THEN MaxId + 1 ELSE ConcMaxId + 1)

\* ------------------------------------------------------------- values
\* A number-like field value carries its Python type: the rating column is a
\* Decimal when read from the store, a str once json.dumps(default=str) has
\* written it, and a float in a request or a response.
NoneVal == [t |-> "None", v |-> 0]
Float(n) == [t |-> "float", v |-> n]
Decimal(n) == [t |-> "Decimal", v |-> n]
Str(n) == [t |-> "str", v |-> n]

\* Movie.id of a request body that carries none
NoId == 0

\* The request bodies (class Movie); ratings in tenths.
MovieA == [id |-> NoId, title |-> "Inception", director |-> "Christopher Nolan",
           year |-> 2010, genre |-> "Sci-Fi", rating |-> Float(88)]
MovieB == [id |-> 3, title |-> "Inception", director |-> "Christopher Nolan",
           year |-> 2010, genre |-> "Drama", rating |-> NoneVal]
Movies == {MovieA, MovieB}

\* genre: Optional[str] = None; None and "" are both falsy in Python
NoGenre == "<None>"
GenreArgs == {NoGenre, "", "Drama", "Sci-Fi"}

\* The rating column, DECIMAL(3, 1): a float is stored as a Decimal, None as NULL.
ColumnRating(r) == IF r.t = "None" THEN NoneVal ELSE Decimal(r.v)

\* Mutation: the statement takes the id too from the request body when the
\* body carries one
RowOfBodyId(id, movie) ==
    [id |-> IF movie.id # NoId THEN movie.id ELSE id,
     title |-> movie.title, director |-> movie.director,
     year |-> movie.year, genre |-> movie.genre, rating |-> ColumnRating(movie.rating)]

\* The row an INSERT or UPDATE of (title, director, year, genre, rating) leaves
\* under id: the request body's own id is no parameter of the statement.
RowOf(id, movie) ==
    [id |-> id, title |-> movie.title, director |-> movie.director,
     year |-> movie.year, genre |-> movie.genre, rating |-> ColumnRating(movie.rating)]

\* json.dumps(movie_data, default=str): a Decimal has no JSON form and goes
\* through str; None is null; the other fields are JSON numbers and strings.
JsonDefaultStr(v) == IF v.t = "Decimal" THEN Str(v.v) ELSE v

json_dumps(movie_data) == [movie_data EXCEPT !.rating = JsonDefaultStr(@)]

\* json.dumps of a list of rows
json_dumps_list(rows) == [i \in 1..Len(rows) |-> json_dumps(rows[i])]

\* json.loads gives back what the text holds: the rating stays a str
json_loads(text) == text

\* response_model=Movie: the rating field is Optional[float]; a Decimal and a
\* numeric str are both coerced to float.
MovieModel(data) ==
    [data EXCEPT !.rating = IF @.t = "None" THEN NoneVal ELSE Float(@.v)]

MovieModelList(seq) == [i \in 1..Len(seq) |-> MovieModel(seq[i])]

\* ------------------------------------------------------------- keys
get_cache_key(movie_id) == "movie:" \o ToString(movie_id)

get_all_movies_cache_key == "movies:all"

\* ------------------------------------------------------------- state
VARIABLES
    movies,     \* the committed rows of table movies
    id_seq,     \* next value of the SERIAL sequence of movies.id
    redis,      \* the cache: key -> [value, ttl]
    pc,         \* per worker: the call its request is about to make
    req,        \* per worker: the request it serves
    tx,         \* per worker: the uncommitted write of its transaction
    loc,        \* per worker: the handler's local variables, and how many
                \* statements, cache calls and cache writes (setex, delete)
                \* the request has issued, and the call that raised, if any
    resp,       \* per worker: the response of a finished request
    lastDone,   \* the id whose update was the last create, update or delete
                \* to complete with success; NoId when that was no update
    fresh       \* per worker: its get started after an update of its id had
                \* returned, and no mutation of the id was in flight since

\* the watchlist service: its own table, and its requests in flight
VARIABLES
    watchlist,          \* the committed rows of table watchlist
    watchlist_id_seq,   \* next value of the SERIAL sequence of watchlist.id
    wl_pc,              \* per request: the call it is about to make
    wl_req,             \* per request: the operation and its user_id, movie_id
    wl_tx,              \* per request: the uncommitted write of its transaction
    wl_loc,             \* per request: the collaborator calls made so far, each
                        \* with its outcome
    wl_resp             \* per request: its response

wl_vars == <<watchlist, watchlist_id_seq, wl_pc, wl_req, wl_tx, wl_loc, wl_resp>>

movie_vars == <<movies, id_seq, redis, pc, req, tx, loc, resp, lastDone, fresh>>

vars == <<movies, id_seq, redis, pc, req, tx, loc, resp, lastDone, fresh, wl_vars>>

\* the requests the watchlist service serves at once
WlProcs == 1..WlWorkers

\* class WatchlistEntry: id is None in the body of a request
WatchlistEntry(id, user_id, movie_id) ==
    [id |-> id, user_id |-> user_id, movie_id |-> movie_id]

NoEntry == WatchlistEntry(NoId, 0, 0)
NoWlReq == [op |-> "none", entry |-> NoEntry]
NoWlTx == [kind |-> "none", row |-> NoEntry]

NoRow == RowOf(0, MovieA)
NoTx == [kind |-> "none", id |-> 0, row |-> NoRow]
NoReq == [op |-> "none", movie_id |-> 0, movie |-> MovieA, movie_ids |-> <<>>,
          genre |-> NoGenre]
NoLoc == [movie_data |-> NoRow, movies |-> <<>>, uncached_ids |-> <<>>,
          results |-> <<>>, i |-> 0, store_calls |-> 0, cache_calls |-> 0,
          cache_writes |-> 0, exc |-> "none"]
NoResp == [status |-> 0, body |-> <<>>]

\* ------------------------------------------------------------- store
RowsById(table, id) == {r \in table : r.id = id}

\* the sequences that list each element of S once
RECURSIVE ResultOrders(_)
ResultOrders(S) ==
    IF S = {} THEN {<<>>}
    ELSE UNION {{<<r>> \o rest : rest \in ResultOrders(S \ {r})} : r \in S}

\* A row another transaction has updated or deleted and not yet committed is
\* locked: an UPDATE or DELETE of it waits for that transaction to end.
RowLocked(p, id) ==
    \E q \in Procs \ {p} : tx[q].kind \in {"update", "delete"} /\ tx[q].id = id

\* the table once a transaction's write is committed
Committed(table, t) ==
    CASE t.kind = "insert" -> table \cup {t.row}
      [] t.kind = "update" -> (table \ RowsById(table, t.id)) \cup {t.row}
      [] t.kind = "delete" -> table \ RowsById(table, t.id)
      [] OTHER -> table

\* ------------------------------------------------------------- cache
CacheHit(key) == key \in DOMAIN redis

\* redis_client.setex(key, CACHE_TTL, value)
Setex(cache, key, value) ==
    [k \in DOMAIN cache \cup {key} |->
        IF k = key THEN [value |-> value, ttl |-> CACHE_TTL] ELSE cache[k]]

\* redis_client.delete(key)
Delete(cache, key) == [k \in DOMAIN cache \ {key} |-> cache[k]]

\* ------------------------------------------------------------- ghosts
\* the request of q is a create, update or delete of id that has not returned
MutatesId(q, id) ==
    /\ pc[q] # "idle"
    /\ \/ req[q].op \in {"update", "delete"} /\ req[q].movie_id = id
       \/ req[q].op = "create" /\ loc[q].movie_data.id = id

\* the request has executed one more statement, issued one more cache call
StoreCall(l) == [l EXCEPT !.store_calls = @ + 1]
CacheCall(l) == [l EXCEPT !.cache_calls = @ + 1]

\* the cache call is a setex or a delete
CacheWrite(l) == [l EXCEPT !.cache_calls = @ + 1, !.cache_writes = @ + 1]

Finish(p, status, body) ==
    /\ pc' = [pc EXCEPT ![p] = "done"]
    /\ resp' = [resp EXCEPT ![p] = [status |-> status, body |-> body]]

\* ------------------------------------------------------------- Init
Init ==
    /\ movies = {}
    /\ id_seq = 1
    /\ redis = <<>>
    /\ pc = [p \in Procs |-> "idle"]
    /\ req = [p \in Procs |-> NoReq]
    /\ tx = [p \in Procs |-> NoTx]
    /\ loc = [p \in Procs |-> NoLoc]
    /\ resp = [p \in Procs |-> NoResp]
    /\ lastDone = NoId
    /\ fresh = [p \in Procs |-> FALSE]
    /\ watchlist = {}
    /\ watchlist_id_seq = 1
    /\ wl_pc = [p \in WlProcs |-> "idle"]
    /\ wl_req = [p \in WlProcs |-> NoWlReq]
    /\ wl_tx = [p \in WlProcs |-> NoWlTx]
    /\ wl_loc = [p \in WlProcs |-> <<>>]
    /\ wl_resp = [p \in WlProcs |-> NoResp]

\* ------------------------------------------------------------- requests
\* the requests that name the ids of ids, in batches of up to maxbatch ids
Requests(ids, maxbatch, genres) ==
    {[NoReq EXCEPT !.op = "create", !.movie = m] : m \in Movies}
    \cup {[NoReq EXCEPT !.op = "get", !.movie_id = i] : i \in ids}
    \cup {[NoReq EXCEPT !.op = "update", !.movie_id = i, !.movie = m] :
             i \in ids, m \in Movies}
    \cup {[NoReq EXCEPT !.op = "delete", !.movie_id = i] : i \in ids}
    \cup {[NoReq EXCEPT !.op = "batch", !.movie_ids = b] :
             b \in UNION {[1..n -> ids] : n \in 0..maxbatch}}
    \cup {[NoReq EXCEPT !.op = "list", !.genre = g] : g \in genres}

\* Python's truth of the genre argument (if genre:)
Truthy(genre) == genre \notin {NoGenre, ""}

\* the first call of the handler of r
Entry(r) ==
    CASE r.op = "create" -> "create_insert"
      [] r.op = "get" -> "get_cache"
      [] r.op = "update" -> "update_stmt"
      [] r.op = "delete" -> "delete_stmt"
      [] r.op = "batch" -> "batch_probe"
      [] OTHER -> IF Truthy(r.genre) THEN "list_genre_select" ELSE "list_cache"

\* A worker takes a request.
StartOf(p, R, maxid) ==
    /\ pc[p] = "idle"
    /\ \E r \in R :
        /\ r.op = "create" => id_seq <= maxid
        /\ req' = [req EXCEPT ![p] = r]
        /\ pc' = [pc EXCEPT ![p] = Entry(r)]
        /\ loc' = [loc EXCEPT ![p] = [NoLoc EXCEPT !.i = 1]]
        /\ fresh' = [q \in Procs |->
              IF q = p
              THEN /\ r.op = "get"
                   /\ lastDone = r.movie_id
                   /\ \A w \in Procs : ~MutatesId(w, r.movie_id)
              ELSE /\ fresh[q]
                   /\ ~(r.op \in {"update", "delete"} /\ req[q].movie_id = r.movie_id)]
    /\ UNCHANGED <<movies, id_seq, wl_vars, redis, tx, resp, lastDone>>

\* The response has gone out.
Respond(p) ==
    /\ pc[p] = "done"
    /\ pc' = [pc EXCEPT ![p] = "idle"]
    /\ req' = [req EXCEPT ![p] = NoReq]
    /\ loc' = [loc EXCEPT ![p] = NoLoc]
    /\ resp' = [resp EXCEPT ![p] = NoResp]
    /\ fresh' = [fresh EXCEPT ![p] = FALSE]
    /\ UNCHANGED <<movies, id_seq, wl_vars, redis, tx>>

\* The response has gone out; a create, update or delete that succeeded is
\* from now on a completed write.
Return(p) ==
    /\ Respond(p)
    /\ IF req[p].op \in {"create", "update", "delete"} /\ resp[p].status = 200
       THEN lastDone' = IF req[p].op = "update" THEN req[p].movie_id ELSE NoId
       ELSE UNCHANGED lastDone

\* ------------------------------------------------ get_db_connection
NotFound == [detail |-> "Movie not found"]

\* the handler's return value as the response model renders it
Body(p) ==
    CASE req[p].op \in {"create", "get", "update"} -> MovieModel(loc[p].movie_data)
      [] req[p].op \in {"batch", "list"} -> MovieModelList(loc[p].movies)
      [] OTHER -> [message |-> "Movie deleted successfully"]

\* The body of the with block ended normally: conn.commit(), conn.close().
get_db_connection_commit(p) ==
    /\ pc[p] = "commit"
    /\ movies' = Committed(movies, tx[p])
    /\ tx' = [tx EXCEPT ![p] = NoTx]
    /\ Finish(p, 200, Body(p))
    /\ UNCHANGED <<id_seq, wl_vars, redis, req, loc, lastDone, fresh>>

\* The body raised HTTPException(404): conn.rollback(), conn.close(), and
\* the error goes to the caller.
Raise404(p) ==
    /\ tx' = [tx EXCEPT ![p] = NoTx]
    /\ Finish(p, 404, NotFound)

\* ---------------------------------------------------- create_movie
create_movie_insert(p) ==
    /\ pc[p] = "create_insert"
    /\ LET row == RowOf(id_seq, req[p].movie)
       IN /\ tx' = [tx EXCEPT ![p] = [kind |-> "insert", id |-> row.id, row |-> row]]
          /\ loc' = [loc EXCEPT ![p] = StoreCall([@ EXCEPT !.movie_data = row])]
    /\ id_seq' = id_seq + 1
    /\ pc' = [pc EXCEPT ![p] = "create_setex"]
    /\ UNCHANGED <<movies, wl_vars, redis, req, resp, lastDone, fresh>>

\* Mutation: create leaves the cache write out
create_movie_setex_skipped(p) ==
    /\ pc[p] = "create_setex"
    /\ pc' = [pc EXCEPT ![p] = "create_delete_all"]
    /\ UNCHANGED <<movies, id_seq, wl_vars, redis, req, tx, loc, resp, lastDone, fresh>>

create_movie_setex(p) ==
    /\ pc[p] = "create_setex"
    /\ redis' = Setex(redis, get_cache_key(loc[p].movie_data.id),
                      json_dumps(loc[p].movie_data))
    /\ pc' = [pc EXCEPT ![p] = "create_delete_all"]
    /\ loc' = [loc EXCEPT ![p] = CacheWrite(@)]
    /\ UNCHANGED <<movies, id_seq, wl_vars, req, tx, resp, lastDone, fresh>>

create_movie_delete_all(p) ==
    /\ pc[p] = "create_delete_all"
    /\ redis' = Delete(redis, get_all_movies_cache_key)
    /\ pc' = [pc EXCEPT ![p] = "commit"]
    /\ loc' = [loc EXCEPT ![p] = CacheWrite(@)]
    /\ UNCHANGED <<movies, id_seq, wl_vars, req, tx, resp, lastDone, fresh>>

\* ------------------------------------------------------- get_movie
\* Mutation: get goes to the store without looking at the cache
get_movie_cache_ignored(p) ==
    /\ pc[p] = "get_cache"
    /\ pc' = [pc EXCEPT ![p] = "get_select"]
    /\ UNCHANGED <<movies, id_seq, wl_vars, redis, req, tx, loc, resp, lastDone, fresh>>

\* Mutation: a hit gives the entry a new time to live (sliding expiration)
get_movie_cache_sliding(p) ==
    /\ pc[p] = "get_cache"
    /\ LET cache_key == get_cache_key(req[p].movie_id)
       IN IF CacheHit(cache_key)
          THEN /\ Finish(p, 200, MovieModel(json_loads(redis[cache_key].value)))
               /\ redis' = Setex(redis, cache_key, redis[cache_key].value)
          ELSE /\ pc' = [pc EXCEPT ![p] = "get_select"]
               /\ UNCHANGED <<resp, redis>>
    /\ loc' = [loc EXCEPT ![p] = CacheCall(@)]
    /\ UNCHANGED <<movies, id_seq, wl_vars, req, tx, lastDone, fresh>>

get_movie_cache(p) ==
    /\ pc[p] = "get_cache"
    /\ LET cache_key == get_cache_key(req[p].movie_id)
       IN IF CacheHit(cache_key)
          THEN Finish(p, 200, MovieModel(json_loads(redis[cache_key].value)))
          ELSE /\ pc' = [pc EXCEPT ![p] = "get_select"]
               /\ UNCHANGED resp
    /\ loc' = [loc EXCEPT ![p] = CacheCall(@)]
    /\ UNCHANGED <<movies, id_seq, wl_vars, redis, req, tx, lastDone, fresh>>

\* Mutation: get caches the miss of an id that has no row
get_movie_select_negative(p) ==
    /\ pc[p] = "get_select"
    /\ LET result == RowsById(movies, req[p].movie_id)
       IN IF result = {}
          THEN /\ Raise404(p)
               /\ loc' = [loc EXCEPT ![p] = CacheWrite(StoreCall(@))]
               /\ redis' = Setex(redis, get_cache_key(req[p].movie_id), json_dumps(NoRow))
          ELSE /\ loc' = [loc EXCEPT ![p] =
                          StoreCall([@ EXCEPT !.movie_data = CHOOSE r \in result : TRUE])]
               /\ pc' = [pc EXCEPT ![p] = "get_setex"]
               /\ UNCHANGED <<tx, resp, redis>>
    /\ UNCHANGED <<movies, id_seq, wl_vars, req, lastDone, fresh>>

get_movie_select(p) ==
    /\ pc[p] = "get_select"
    /\ LET result == RowsById(movies, req[p].movie_id)
       IN IF result = {}
          THEN Raise404(p) /\ loc' = [loc EXCEPT ![p] = StoreCall(@)]
          ELSE /\ loc' = [loc EXCEPT ![p] =
                          StoreCall([@ EXCEPT !.movie_data = CHOOSE r \in result : TRUE])]
               /\ pc' = [pc EXCEPT ![p] = "get_setex"]
               /\ UNCHANGED <<tx, resp>>
    /\ UNCHANGED <<movies, id_seq, wl_vars, redis, req, lastDone, fresh>>

get_movie_setex(p) ==
    /\ pc[p] = "get_setex"
    /\ redis' = Setex(redis, get_cache_key(req[p].movie_id), json_dumps(loc[p].movie_data))
    /\ pc' = [pc EXCEPT ![p] = "commit"]
    /\ loc' = [loc EXCEPT ![p] = CacheWrite(@)]
    /\ UNCHANGED <<movies, id_seq, wl_vars, req, tx, resp, lastDone, fresh>>

\* ---------------------------------------------------- update_movie
\* Mutation: update invalidates the collection key before it looks at the
\* statement's result
update_movie_stmt_invalidating(p) ==
    /\ pc[p] = "update_stmt"
    /\ ~RowLocked(p, req[p].movie_id)
    /\ IF RowsById(movies, req[p].movie_id) = {}
       THEN /\ Raise404(p)
            /\ loc' = [loc EXCEPT ![p] = CacheWrite(StoreCall(@))]
            /\ redis' = Delete(redis, get_all_movies_cache_key)
       ELSE LET row == RowOf(req[p].movie_id, req[p].movie)
            IN /\ tx' = [tx EXCEPT ![p] = [kind |-> "update", id |-> row.id, row |-> row]]
               /\ loc' = [loc EXCEPT ![p] = StoreCall([@ EXCEPT !.movie_data = row])]
               /\ pc' = [pc EXCEPT ![p] = "update_setex"]
               /\ UNCHANGED <<resp, redis>>
    /\ UNCHANGED <<movies, id_seq, wl_vars, req, lastDone, fresh>>

update_movie_stmt(p) ==
    /\ pc[p] = "update_stmt"
    /\ ~RowLocked(p, req[p].movie_id)
    /\ IF RowsById(movies, req[p].movie_id) = {}
       THEN Raise404(p) /\ loc' = [loc EXCEPT ![p] = StoreCall(@)]
       ELSE LET row == RowOf(req[p].movie_id, req[p].movie)
            IN /\ tx' = [tx EXCEPT ![p] = [kind |-> "update", id |-> row.id, row |-> row]]
               /\ loc' = [loc EXCEPT ![p] = StoreCall([@ EXCEPT !.movie_data = row])]
               /\ pc' = [pc EXCEPT ![p] = "update_setex"]
               /\ UNCHANGED resp
    /\ UNCHANGED <<movies, id_seq, wl_vars, redis, req, lastDone, fresh>>

update_movie_setex(p) ==
    /\ pc[p] = "update_setex"
    /\ redis' = Setex(redis, get_cache_key(req[p].movie_id), json_dumps(loc[p].movie_data))
    /\ pc' = [pc EXCEPT ![p] = "update_delete_all"]
    /\ loc' = [loc EXCEPT ![p] = CacheWrite(@)]
    /\ UNCHANGED <<movies, id_seq, wl_vars, req, tx, resp, lastDone, fresh>>

\* Mutation: update_movie leaves the cached listing in place
update_movie_delete_all_skipped(p) ==
    /\ pc[p] = "update_delete_all"
    /\ redis' = redis
    /\ pc' = [pc EXCEPT ![p] = "commit"]
    /\ loc' = [loc EXCEPT ![p] = CacheWrite(@)]
    /\ UNCHANGED <<movies, id_seq, wl_vars, req, tx, resp, lastDone, fresh>>

update_movie_delete_all(p) ==
    /\ pc[p] = "update_delete_all"
    /\ redis' = Delete(redis, get_all_movies_cache_key)
    /\ pc' = [pc EXCEPT ![p] = "commit"]
    /\ loc' = [loc EXCEPT ![p] = CacheWrite(@)]
    /\ UNCHANGED <<movies, id_seq, wl_vars, req, tx, resp, lastDone, fresh>>

\* ---------------------------------------------------- delete_movie
delete_movie_stmt(p) ==
    /\ pc[p] = "delete_stmt"
    /\ ~RowLocked(p, req[p].movie_id)
    /\ IF RowsById(movies, req[p].movie_id) = {}
       THEN Raise404(p)
       ELSE /\ tx' = [tx EXCEPT ![p] = [kind |-> "delete", id |-> req[p].movie_id,
                                        row |-> NoRow]]
            /\ pc' = [pc EXCEPT ![p] = "delete_delete_key"]
            /\ UNCHANGED resp
    /\ loc' = [loc EXCEPT ![p] = StoreCall(@)]
    /\ UNCHANGED <<movies, id_seq, wl_vars, redis, req, lastDone, fresh>>

delete_movie_delete_key(p) ==
    /\ pc[p] = "delete_delete_key"
    /\ redis' = Delete(redis, get_cache_key(req[p].movie_id))
    /\ pc' = [pc EXCEPT ![p] = "delete_delete_all"]
    /\ loc' = [loc EXCEPT ![p] = CacheWrite(@)]
    /\ UNCHANGED <<movies, id_seq, wl_vars, req, tx, resp, lastDone, fresh>>

delete_movie_delete_all(p) ==
    /\ pc[p] = "delete_delete_all"
    /\ redis' = Delete(redis, get_all_movies_cache_key)
    /\ pc' = [pc EXCEPT ![p] = "commit"]
    /\ loc' = [loc EXCEPT ![p] = CacheWrite(@)]
    /\ UNCHANGED <<movies, id_seq, wl_vars, req, tx, resp, lastDone, fresh>>

\* ------------------------------------------------ get_movies_batch
Range(f) == {f[i] : i \in DOMAIN f}

\* Mutation: an empty id list is not answered at once but taken to the store
get_movies_batch_empty_querying(p) ==
    /\ pc[p] = "batch_probe"
    /\ req[p].movie_ids = <<>>
    /\ pc' = [pc EXCEPT ![p] = "batch_select"]
    /\ UNCHANGED <<movies, id_seq, wl_vars, redis, req, tx, loc, resp, lastDone, fresh>>

\* if not request.movie_ids: return []
get_movies_batch_empty(p) ==
    /\ pc[p] = "batch_probe"
    /\ req[p].movie_ids = <<>>
    /\ Finish(p, 200, <<>>)
    /\ UNCHANGED <<movies, id_seq, wl_vars, redis, req, tx, loc, lastDone, fresh>>

\* Mutation: the batch lookup asks the store for every id, cached or not
get_movies_batch_probe_all_uncached(p) ==
    /\ pc[p] = "batch_probe"
    /\ loc[p].i <= Len(req[p].movie_ids)
    /\ LET movie_id == req[p].movie_ids[loc[p].i]
           cache_key == get_cache_key(movie_id)
           l == IF CacheHit(cache_key)
                THEN CacheCall([loc[p] EXCEPT
                        !.movies = Append(@, json_loads(redis[cache_key].value)),
                        !.uncached_ids = Append(@, movie_id), !.i = @ + 1])
                ELSE CacheCall([loc[p] EXCEPT
                        !.uncached_ids = Append(@, movie_id), !.i = @ + 1])
       IN /\ loc' = [loc EXCEPT ![p] = l]
          /\ IF l.i <= Len(req[p].movie_ids)
             THEN UNCHANGED <<pc, resp>>
             ELSE IF l.uncached_ids # <<>>
                  THEN pc' = [pc EXCEPT ![p] = "batch_select"] /\ UNCHANGED resp
                  ELSE Finish(p, 200, MovieModelList(l.movies))
    /\ UNCHANGED <<movies, id_seq, wl_vars, redis, req, tx, lastDone, fresh>>

\* One turn of the loop over request.movie_ids: a cache read, and the hit or
\* the miss is noted; after the last id, the handler returns the hits when
\* nothing missed.
get_movies_batch_probe(p) ==
    /\ pc[p] = "batch_probe"
    /\ loc[p].i <= Len(req[p].movie_ids)
    /\ LET movie_id == req[p].movie_ids[loc[p].i]
           cache_key == get_cache_key(movie_id)
           l == IF CacheHit(cache_key)
                THEN CacheCall([loc[p] EXCEPT
                        !.movies = Append(@, json_loads(redis[cache_key].value)),
                        !.i = @ + 1])
                ELSE CacheCall([loc[p] EXCEPT
                        !.uncached_ids = Append(@, movie_id), !.i = @ + 1])
       IN /\ loc' = [loc EXCEPT ![p] = l]
          /\ IF l.i <= Len(req[p].movie_ids)
             THEN UNCHANGED <<pc, resp>>
             ELSE IF l.uncached_ids # <<>>
                  THEN pc' = [pc EXCEPT ![p] = "batch_select"] /\ UNCHANGED resp
                  ELSE Finish(p, 200, MovieModelList(l.movies))
    /\ UNCHANGED <<movies, id_seq, wl_vars, redis, req, tx, lastDone, fresh>>

\* Mutation: the batch lookup fails when an id it asked the store for has no row
get_movies_batch_select_strict(p) ==
    /\ pc[p] = "batch_select"
    /\ \E results \in ResultOrders({r \in movies : r.id \in Range(loc[p].uncached_ids)}) :
        /\ loc' = [loc EXCEPT ![p] = StoreCall([@ EXCEPT !.results = results, !.i = 1])]
        /\ IF Len(results) < Cardinality(Range(loc[p].uncached_ids))
           THEN Raise404(p)
           ELSE /\ pc' = [pc EXCEPT ![p] = "batch_setex"]
                /\ UNCHANGED <<tx, resp>>
    /\ UNCHANGED <<movies, id_seq, wl_vars, redis, req, lastDone, fresh>>

\* Mutation: the rows are fetched with one SELECT per id that missed, so a
\* row comes back once for each time its id was asked for
get_movies_batch_select_per_occurrence(p) ==
    /\ pc[p] = "batch_select"
    /\ LET found == SelectSeq(loc[p].uncached_ids,
                              LAMBDA id : RowsById(movies, id) # {})
           results == [j \in 1..Len(found) |->
                          CHOOSE r \in RowsById(movies, found[j]) : TRUE]
       IN /\ loc' = [loc EXCEPT ![p] = StoreCall([@ EXCEPT !.results = results, !.i = 1])]
          /\ pc' = [pc EXCEPT ![p] = IF results = <<>> THEN "commit" ELSE "batch_setex"]
    /\ UNCHANGED <<movies, id_seq, wl_vars, redis, req, tx, resp, lastDone, fresh>>

\* SELECT * FROM movies WHERE id = ANY(uncached_ids): each matching row once,
\* in an order the statement does not fix.
get_movies_batch_select(p) ==
    /\ pc[p] = "batch_select"
    /\ \E results \in ResultOrders({r \in movies : r.id \in Range(loc[p].uncached_ids)}) :
        /\ loc' = [loc EXCEPT ![p] = StoreCall([@ EXCEPT !.results = results, !.i = 1])]
        /\ pc' = [pc EXCEPT ![p] = IF results = <<>> THEN "commit" ELSE "batch_setex"]
    /\ UNCHANGED <<movies, id_seq, wl_vars, redis, req, tx, resp, lastDone, fresh>>

\* Mutation: a fetched row is put in front of the result instead of at its end
get_movies_batch_setex_prepending(p) ==
    /\ pc[p] = "batch_setex"
    /\ LET movie_data == loc[p].results[loc[p].i]
       IN /\ redis' = Setex(redis, get_cache_key(movie_data.id), json_dumps(movie_data))
          /\ loc' = [loc EXCEPT ![p] =
                      CacheWrite([@ EXCEPT !.movies = <<movie_data>> \o @, !.i = @ + 1])]
    /\ pc' = [pc EXCEPT ![p] = IF loc[p].i < Len(loc[p].results) THEN "batch_setex" ELSE "commit"]
    /\ UNCHANGED <<movies, id_seq, wl_vars, req, tx, resp, lastDone, fresh>>

\* Mutation: caching a fetched row also invalidates the listing, as the
\* writers do
get_movies_batch_setex_invalidating(p) ==
    /\ pc[p] = "batch_setex"
    /\ LET movie_data == loc[p].results[loc[p].i]
       IN /\ redis' = Delete(Setex(redis, get_cache_key(movie_data.id),
                                   json_dumps(movie_data)),
                             get_all_movies_cache_key)
          /\ loc' = [loc EXCEPT ![p] =
                      CacheWrite([@ EXCEPT !.movies = Append(@, movie_data), !.i = @ + 1])]
    /\ pc' = [pc EXCEPT ![p] = IF loc[p].i < Len(loc[p].results) THEN "batch_setex" ELSE "commit"]
    /\ UNCHANGED <<movies, id_seq, wl_vars, req, tx, resp, lastDone, fresh>>

\* One turn of the loop over the fetched rows: the row joins the result and
\* is written to the cache under its own id.
get_movies_batch_setex(p) ==
    /\ pc[p] = "batch_setex"
    /\ LET movie_data == loc[p].results[loc[p].i]
       IN /\ redis' = Setex(redis, get_cache_key(movie_data.id), json_dumps(movie_data))
          /\ loc' = [loc EXCEPT ![p] =
                      CacheWrite([@ EXCEPT !.movies = Append(@, movie_data), !.i = @ + 1])]
    /\ pc' = [pc EXCEPT ![p] = IF loc[p].i < Len(loc[p].results) THEN "batch_setex" ELSE "commit"]
    /\ UNCHANGED <<movies, id_seq, wl_vars, req, tx, resp, lastDone, fresh>>

\* ------------------------------------------------------ get_movies
\* if genre: SELECT * FROM movies WHERE genre = %s, no cache call
get_movies_genre_select(p) ==
    /\ pc[p] = "list_genre_select"
    /\ \E results \in ResultOrders({r \in movies : r.genre = req[p].genre}) :
        loc' = [loc EXCEPT ![p] = StoreCall([@ EXCEPT !.movies = results])]
    /\ pc' = [pc EXCEPT ![p] = "commit"]
    /\ UNCHANGED <<movies, id_seq, wl_vars, redis, req, tx, resp, lastDone, fresh>>

\* Mutation: a cached empty listing counts as a miss
get_movies_cache_empty_is_miss(p) ==
    /\ pc[p] = "list_cache"
    /\ LET cache_key == get_all_movies_cache_key
       IN IF CacheHit(cache_key) /\ json_loads(redis[cache_key].value) # <<>>
          THEN Finish(p, 200, MovieModelList(json_loads(redis[cache_key].value)))
          ELSE /\ pc' = [pc EXCEPT ![p] = "list_select"]
               /\ UNCHANGED resp
    /\ loc' = [loc EXCEPT ![p] = CacheCall(@)]
    /\ UNCHANGED <<movies, id_seq, wl_vars, redis, req, tx, lastDone, fresh>>

get_movies_cache(p) ==
    /\ pc[p] = "list_cache"
    /\ LET cache_key == get_all_movies_cache_key
       IN IF CacheHit(cache_key)
          THEN Finish(p, 200, MovieModelList(json_loads(redis[cache_key].value)))
          ELSE /\ pc' = [pc EXCEPT ![p] = "list_select"]
               /\ UNCHANGED resp
    /\ loc' = [loc EXCEPT ![p] = CacheCall(@)]
    /\ UNCHANGED <<movies, id_seq, wl_vars, redis, req, tx, lastDone, fresh>>

get_movies_select(p) ==
    /\ pc[p] = "list_select"
    /\ \E results \in ResultOrders(movies) :
        loc' = [loc EXCEPT ![p] = StoreCall([@ EXCEPT !.movies = results])]
    /\ pc' = [pc EXCEPT ![p] = "list_setex"]
    /\ UNCHANGED <<movies, id_seq, wl_vars, redis, req, tx, resp, lastDone, fresh>>

get_movies_setex(p) ==
    /\ pc[p] = "list_setex"
    /\ redis' = Setex(redis, get_all_movies_cache_key, json_dumps_list(loc[p].movies))
    /\ pc' = [pc EXCEPT ![p] = "commit"]
    /\ loc' = [loc EXCEPT ![p] = CacheWrite(@)]
    /\ UNCHANGED <<movies, id_seq, wl_vars, req, tx, resp, lastDone, fresh>>

\* ------------------------------------------------------------- TTL
\* the keys the request of p has written so far
WrittenKeys(p) ==
    CASE pc[p] \in {"create_delete_all", "update_delete_all"}
            -> {get_cache_key(loc[p].movie_data.id)}
      [] pc[p] = "commit" /\ req[p].op \in {"create", "get", "update"}
            -> {get_cache_key(loc[p].movie_data.id)}
      [] pc[p] = "commit" /\ req[p].op = "list" /\ ~Truthy(req[p].genre)
            -> {get_all_movies_cache_key}
      [] pc[p] \in {"batch_setex", "commit"} /\ req[p].op = "batch"
            -> {get_cache_key(loc[p].results[j].id) : j \in 1..(loc[p].i - 1)}
      [] OTHER -> {}

\* Mutation: an entry is stored without a time to live (set in place of
\* setex) and Redis never drops it
ExpireNever(key) ==
    /\ key \in DOMAIN redis
    /\ redis[key].ttl = 0
    /\ \A p \in Procs : key \notin WrittenKeys(p)
    /\ redis' = Delete(redis, key)
    /\ UNCHANGED <<movies, id_seq, wl_vars, pc, req, tx, loc, resp, lastDone, fresh>>

\* An entry reaches the end of its time to live and Redis drops it.  The time
\* to live is an hour: no entry expires under the request that wrote it.
Expire(key) ==
    /\ key \in DOMAIN redis
    /\ \A p \in Procs : key \notin WrittenKeys(p)
    /\ redis' = Delete(redis, key)
    /\ UNCHANGED <<movies, id_seq, wl_vars, pc, req, tx, loc, resp, lastDone, fresh>>

\* ------------------------------------------------------------- Next
MutateStep(p) ==
    \/ create_movie_insert(p)
    \/ create_movie_setex(p)
    \/ create_movie_delete_all(p)
    \/ update_movie_stmt(p)
    \/ update_movie_setex(p)
    \/ update_movie_delete_all(p)
    \/ delete_movie_stmt(p)
    \/ delete_movie_delete_key(p)
    \/ delete_movie_delete_all(p)
    \/ get_db_connection_commit(p)

GetStep(p) ==
    \/ get_movie_cache(p)
    \/ get_movie_select(p)
    \/ get_movie_setex(p)

BatchStep(p) ==
    \/ get_movies_batch_empty(p)
    \/ get_movies_batch_probe(p)
    \/ get_movies_batch_select(p)
    \/ get_movies_batch_setex(p)

ListStep(p) ==
    \/ get_movies_genre_select(p)
    \/ get_movies_cache(p)
    \/ get_movies_select(p)
    \/ get_movies_setex(p)

Keys == {get_cache_key(i) : i \in ReqIds} \cup {get_all_movies_cache_key}

\* Requests in flight together: each names an id the sequence can issue (an id
\* is in no store before its create commits and after its delete).
ConcRequests == Requests(1..ConcMaxId, ConcMaxBatch, {NoGenre, "Drama"})

Start(p) == StartOf(p, ConcRequests, ConcMaxId)

Next ==
    \/ \E p \in Procs :
        Start(p) \/ MutateStep(p) \/ GetStep(p) \/ BatchStep(p) \/ ListStep(p) \/ Return(p)
    \/ \E key \in Keys : Expire(key)

Spec == Init /\ [][Next]_vars

\* One worker process: its handlers are coroutines that never await, so the
\* event loop runs each request to its end before it takes the next.
ReturnSeq(p) == Respond(p) /\ UNCHANGED lastDone

\* create, get, update, delete and the listings, one request at a time
SeqRequests ==
    {r \in Requests(1..(MaxId + 1), 0, GenreArgs) : r.op # "batch"}

StartSeq(p) == StartOf(p, SeqRequests, MaxId)

NextSeq ==
    \/ StartSeq(1) \/ MutateStep(1) \/ GetStep(1) \/ ListStep(1) \/ ReturnSeq(1)
    \/ \E key \in Keys : Expire(key)

SeqSpec == Init /\ [][NextSeq]_vars

\* create, update, delete and the batch lookup, one request at a time
BatchRequests ==
    {r \in Requests(1..(MaxId + 1), MaxBatch, {}) : r.op # "get"}

StartBatch(p) == StartOf(p, BatchRequests, MaxId)

NextBatch ==
    \/ StartBatch(1) \/ MutateStep(1) \/ BatchStep(1) \/ ReturnSeq(1)
    \/ \E key \in Keys : Expire(key)

BatchSpec == Init /\ [][NextBatch]_vars

\* create, delete, the batch lookup and the listing of every record, one
\* request at a time: the batch lookup next to a cached listing
BatchListRequests ==
    {r \in Requests(1..(MaxId + 1), ListMaxBatch, {NoGenre}) :
        r.op \notin {"get", "update"}}

StartBatchList(p) == StartOf(p, BatchListRequests, MaxId)

NextBatchList ==
    \/ StartBatchList(1)
    \/ create_movie_insert(1) \/ create_movie_setex(1) \/ create_movie_delete_all(1)
    \/ delete_movie_stmt(1) \/ delete_movie_delete_key(1) \/ delete_movie_delete_all(1)
    \/ get_db_connection_commit(1)
    \/ BatchStep(1)
    \/ get_movies_cache(1) \/ get_movies_select(1) \/ get_movies_setex(1)
    \/ ReturnSeq(1)
    \/ \E key \in Keys : Expire(key)

BatchListSpec == Init /\ [][NextBatchList]_vars

\* ------------------------------------------------------------ clock
\* the time between two steps of the clock
TickLen == CACHE_TTL \div TicksPerTtl

\* Time passes: Redis counts every entry's time to live down and drops the
\* entries whose time is up.  A request is over well within one step of the
\* clock, which is taken between requests.
Tick ==
    /\ \A p \in Procs : pc[p] = "idle"
    /\ redis # <<>>
    /\ redis' = [k \in {j \in DOMAIN redis : redis[j].ttl > TickLen} |->
                    [redis[k] EXCEPT !.ttl = @ - TickLen]]
    /\ UNCHANGED <<movies, id_seq, wl_vars, pc, req, tx, loc, resp, lastDone, fresh>>

\* every request kind that reads or writes the cache, one request at a time,
\* with the clock
TtlRequests == Requests(1..(MaxId + 1), ConcMaxBatch, {NoGenre})

StartTtl(p) == StartOf(p, TtlRequests, MaxId)

NextTtl ==
    \/ StartTtl(1) \/ MutateStep(1) \/ GetStep(1) \/ BatchStep(1)
    \/ get_movies_cache(1) \/ get_movies_select(1) \/ get_movies_setex(1)
    \/ ReturnSeq(1)
    \/ Tick

TtlSpec == Init /\ [][NextTtl]_vars

\* ------------------------------------------------------- failures
\* the response to an exception that is no HTTPException
InternalError == [detail |-> "Internal Server Error"]

\* the request of p is about to call the store: psycopg2.connect and the
\* first cur.execute of a with block, or conn.commit at its end
StorePcs ==
    {"create_insert", "get_select", "update_stmt", "delete_stmt", "batch_select",
     "list_genre_select", "list_select", "commit"}

\* the request of p is about to call redis_client.get, setex or delete
CachePcs ==
    {"create_setex", "create_delete_all", "get_cache", "get_setex", "update_setex",
     "update_delete_all", "delete_delete_key", "delete_delete_all", "batch_probe",
     "batch_setex", "list_cache", "list_setex"}

\* The store call raises (the store is down, the statement fails, the commit
\* fails): except Exception: conn.rollback(); raise.  What the request wrote
\* to the cache before stays written.
get_db_connection_rollback(p) ==
    /\ pc[p] \in StorePcs
    /\ tx' = [tx EXCEPT ![p] = NoTx]
    /\ loc' = [loc EXCEPT ![p].exc = "store"]
    /\ Finish(p, 500, InternalError)
    /\ UNCHANGED <<movies, id_seq, wl_vars, redis, req, lastDone, fresh>>

\* Mutation: a cache read that fails is taken for a miss, and the request
\* goes on to the store
redis_client_raises_masked(p) ==
    /\ pc[p] \in CachePcs
    /\ pc[p] = "batch_probe" => req[p].movie_ids # <<>>
    /\ IF pc[p] \in {"get_cache", "list_cache"}
       THEN /\ pc' = [pc EXCEPT ![p] = IF pc[p] = "get_cache" THEN "get_select"
                                       ELSE "list_select"]
            /\ UNCHANGED <<tx, resp>>
       ELSE /\ tx' = [tx EXCEPT ![p] = NoTx]
            /\ Finish(p, 500, InternalError)
    /\ loc' = [loc EXCEPT ![p].exc = "cache"]
    /\ UNCHANGED <<movies, id_seq, wl_vars, redis, req, lastDone, fresh>>

\* Mutation: conn.commit() sits in the finally clause, so the transaction
\* of a body that raised is committed too
redis_client_raises_committing(p) ==
    /\ pc[p] \in CachePcs
    /\ pc[p] = "batch_probe" => req[p].movie_ids # <<>>
    /\ movies' = Committed(movies, tx[p])
    /\ tx' = [tx EXCEPT ![p] = NoTx]
    /\ loc' = [loc EXCEPT ![p].exc = "cache"]
    /\ Finish(p, 500, InternalError)
    /\ UNCHANGED <<id_seq, wl_vars, redis, req, lastDone, fresh>>

\* The cache call raises (Redis is down): no handler catches it.  Inside a
\* with block it ends the block, which rolls the transaction back; the cache
\* reads of get_movie, get_movies_batch and get_movies come before any block.
redis_client_raises(p) ==
    /\ pc[p] \in CachePcs
    /\ pc[p] = "batch_probe" => req[p].movie_ids # <<>>
    /\ tx' = [tx EXCEPT ![p] = NoTx]
    /\ loc' = [loc EXCEPT ![p].exc = "cache"]
    /\ Finish(p, 500, InternalError)
    /\ UNCHANGED <<movies, id_seq, wl_vars, redis, req, lastDone, fresh>>

\* every request kind, one request at a time, with calls that fail
FailRequests == Requests(1..(MaxId + 1), ConcMaxBatch, {NoGenre, "Drama"})

StartFail(p) == StartOf(p, FailRequests, MaxId)

NextFail ==
    \/ StartFail(1) \/ MutateStep(1) \/ GetStep(1) \/ BatchStep(1) \/ ListStep(1)
    \/ get_db_connection_rollback(1) \/ redis_client_raises(1)
    \/ ReturnSeq(1)
    \/ \E key \in Keys : Expire(key)

FailSpec == Init /\ [][NextFail]_vars

\* every request kind, one request at a time, every call succeeding
NextAll ==
    \/ StartFail(1) \/ MutateStep(1) \/ GetStep(1) \/ BatchStep(1) \/ ListStep(1)
    \/ ReturnSeq(1)
    \/ \E key \in Keys : Expire(key)

AllSpec == Init /\ [][NextAll]_vars

\* Redis counts the time to live of every entry down whatever the service
\* does: an entry that stays in the cache is dropped in the end.
ExpiryFairness == \A key \in Keys : WF_vars(Expire(key))

\* A handler has no await and no loop without end: a request that has
\* started runs on to its response, which is sent.
RequestFairness ==
    WF_vars(MutateStep(1) \/ GetStep(1) \/ ListStep(1) \/ ReturnSeq(1))

\* the requests that write or read one record or the whole listing, one at
\* a time, with calls that fail
LiveRequests ==
    {r \in Requests(1..(MaxId + 1), 0, {NoGenre}) : r.op # "batch"}

StartLive(p) == StartOf(p, LiveRequests, MaxId)

NextLive ==
    \/ StartLive(1) \/ MutateStep(1) \/ GetStep(1)
    \/ get_movies_cache(1) \/ get_movies_select(1) \/ get_movies_setex(1)
    \/ get_db_connection_rollback(1) \/ redis_client_raises(1)
    \/ ReturnSeq(1)
    \/ \E key \in Keys : Expire(key)

LiveSpec == Init /\ [][NextLive]_vars /\ ExpiryFairness /\ RequestFairness

\* ================================================== watchlist service
\* What a call of a collaborator (user-service, movie-service) comes to: a
\* response with a status code, or an exception of the client (the service
\* is unreachable, the call times out).
HttpOutcomes ==
    {[raised |-> FALSE, status_code |-> c] : c \in {200, 404, 500}}
    \cup {[raised |-> TRUE, status_code |-> 0]}

\* return response.status_code == 200, except Exception: return False
validate_user_exists(outcome) ==
    IF outcome.raised THEN FALSE ELSE outcome.status_code = 200

validate_movie_exists(outcome) ==
    IF outcome.raised THEN FALSE ELSE outcome.status_code = 200

Pair(e) == <<e.user_id, e.movie_id>>

\* the rows of table with the user_id and movie_id of entry
RowsByPair(table, entry) == {r \in table : Pair(r) = Pair(entry)}

\* Another transaction has inserted or deleted a row of the pair of entry
\* and has not ended: the check of UNIQUE(user_id, movie_id), like the row
\* lock of a DELETE, waits for it.
PairPending(p, entry) ==
    \E q \in WlProcs \ {p} :
        wl_tx[q].kind \in {"insert", "delete"} /\ Pair(wl_tx[q].row) = Pair(entry)

\* the table after conn.commit() of a transaction that wrote t
WlCommitted(table, t) ==
    CASE t.kind = "insert" -> table \cup {t.row}
      [] t.kind = "delete" -> table \ {t.row}
      [] OTHER -> table

WlFinish(p, status, body) ==
    /\ wl_pc' = [wl_pc EXCEPT ![p] = "done"]
    /\ wl_resp' = [wl_resp EXCEPT ![p] = [status |-> status, body |-> body]]

UserNotFound(user_id) == [detail |-> <<"User", user_id, "not found">>]
MovieNotFound(movie_id) == [detail |-> <<"Movie", movie_id, "not found">>]
AlreadyInWatchlist == [detail |-> "Movie already in watchlist"]
EntryNotFound == [detail |-> "Watchlist entry not found"]
Removed == [message |-> "Removed from watchlist successfully"]

\* the entries requests name: one user, two movies
Entries == {WatchlistEntry(NoId, 7, 1), WatchlistEntry(NoId, 7, 2)}

WlRequests ==
    {[op |-> op, entry |-> e] : op \in {"add", "remove"}, e \in Entries}

\* A request arrives: POST /watchlist or
\* DELETE /watchlist/user/{user_id}/movie/{movie_id}.
WlStart(p) ==
    /\ wl_pc[p] = "idle"
    /\ \E r \in WlRequests :
        /\ r.op = "add" => watchlist_id_seq <= MaxEntryId
        /\ wl_req' = [wl_req EXCEPT ![p] = r]
        /\ wl_pc' = [wl_pc EXCEPT ![p] =
                        IF r.op = "add" THEN "add_validate_user" ELSE "remove_delete"]
    /\ UNCHANGED <<watchlist, watchlist_id_seq, wl_tx, wl_loc, wl_resp>>
    /\ UNCHANGED movie_vars

\* if not await validate_user_exists(entry.user_id): raise HTTPException(404)
add_to_watchlist_validate_user(p) ==
    /\ wl_pc[p] = "add_validate_user"
    /\ \E outcome \in HttpOutcomes :
        /\ wl_loc' = [wl_loc EXCEPT ![p] =
                        Append(@, [call |-> "user", outcome |-> outcome])]
        /\ IF validate_user_exists(outcome)
           THEN /\ wl_pc' = [wl_pc EXCEPT ![p] = "add_validate_movie"]
                /\ UNCHANGED wl_resp
           ELSE WlFinish(p, 404, UserNotFound(wl_req[p].entry.user_id))
    /\ UNCHANGED <<watchlist, watchlist_id_seq, wl_req, wl_tx>>
    /\ UNCHANGED movie_vars

\* if not await validate_movie_exists(entry.movie_id): raise HTTPException(404)
add_to_watchlist_validate_movie(p) ==
    /\ wl_pc[p] = "add_validate_movie"
    /\ \E outcome \in HttpOutcomes :
        /\ wl_loc' = [wl_loc EXCEPT ![p] =
                        Append(@, [call |-> "movie", outcome |-> outcome])]
        /\ IF validate_movie_exists(outcome)
           THEN /\ wl_pc' = [wl_pc EXCEPT ![p] = "add_insert"]
                /\ UNCHANGED wl_resp
           ELSE WlFinish(p, 404, MovieNotFound(wl_req[p].entry.movie_id))
    /\ UNCHANGED <<watchlist, watchlist_id_seq, wl_req, wl_tx>>
    /\ UNCHANGED movie_vars

\* Mutation: the table is created without UNIQUE(user_id, movie_id)
add_to_watchlist_insert_no_unique(p) ==
    /\ wl_pc[p] = "add_insert"
    /\ LET entry == wl_req[p].entry
           row == WatchlistEntry(watchlist_id_seq, entry.user_id, entry.movie_id)
       IN /\ watchlist_id_seq' = watchlist_id_seq + 1
          /\ wl_tx' = [wl_tx EXCEPT ![p] = [kind |-> "insert", row |-> row]]
          /\ wl_pc' = [wl_pc EXCEPT ![p] = "add_commit"]
          /\ UNCHANGED wl_resp
    /\ UNCHANGED <<watchlist, wl_req, wl_loc>>
    /\ UNCHANGED movie_vars

\* INSERT INTO watchlist (user_id, movie_id) VALUES (%s, %s) RETURNING *.
\* The id is drawn from the sequence before the constraint is checked.  A
\* committed row of the pair makes the statement raise IntegrityError: the
\* with block rolls back, and the handler answers 409.
add_to_watchlist_insert(p) ==
    /\ wl_pc[p] = "add_insert"
    /\ ~PairPending(p, wl_req[p].entry)
    /\ LET entry == wl_req[p].entry
           row == WatchlistEntry(watchlist_id_seq, entry.user_id, entry.movie_id)
       IN /\ watchlist_id_seq' = watchlist_id_seq + 1
          /\ IF RowsByPair(watchlist, entry) # {}
             THEN /\ WlFinish(p, 409, AlreadyInWatchlist)
                  /\ UNCHANGED wl_tx
             ELSE /\ wl_tx' = [wl_tx EXCEPT ![p] = [kind |-> "insert", row |-> row]]
                  /\ wl_pc' = [wl_pc EXCEPT ![p] = "add_commit"]
                  /\ UNCHANGED wl_resp
    /\ UNCHANGED <<watchlist, wl_req, wl_loc>>
    /\ UNCHANGED movie_vars

\* DELETE FROM watchlist WHERE user_id = %s AND movie_id = %s RETURNING id;
\* no row: HTTPException(404), and the with block rolls back.  A row that
\* another transaction has inserted and not committed is not seen.
remove_movie_from_user_watchlist_delete(p) ==
    /\ wl_pc[p] = "remove_delete"
    /\ LET result == RowsByPair(watchlist, wl_req[p].entry)
       IN IF result = {}
          THEN /\ WlFinish(p, 404, EntryNotFound)
               /\ UNCHANGED wl_tx
          ELSE /\ ~PairPending(p, wl_req[p].entry)
               /\ wl_tx' = [wl_tx EXCEPT ![p] =
                               [kind |-> "delete", row |-> CHOOSE r \in result : TRUE]]
               /\ wl_pc' = [wl_pc EXCEPT ![p] = "remove_commit"]
               /\ UNCHANGED wl_resp
    /\ UNCHANGED <<watchlist, watchlist_id_seq, wl_req, wl_loc>>
    /\ UNCHANGED movie_vars

\* the handler's return value: dict(result) through
\* response_model=WatchlistEntry, which drops created_at
WlBody(p) ==
    IF wl_req[p].op = "add" THEN wl_tx[p].row ELSE Removed

\* The body of the with block ended normally: conn.commit(), conn.close().
watchlist_get_db_connection_commit(p) ==
    /\ wl_pc[p] \in {"add_commit", "remove_commit"}
    /\ watchlist' = WlCommitted(watchlist, wl_tx[p])
    /\ wl_tx' = [wl_tx EXCEPT ![p] = NoWlTx]
    /\ WlFinish(p, 200, WlBody(p))
    /\ UNCHANGED <<watchlist_id_seq, wl_req, wl_loc>>
    /\ UNCHANGED movie_vars

\* A store call raises something other than IntegrityError (the store is
\* down, the commit fails): except Exception: conn.rollback(); raise.
watchlist_get_db_connection_rollback(p) ==
    /\ wl_pc[p] \in {"add_insert", "add_commit", "remove_delete", "remove_commit"}
    /\ wl_tx' = [wl_tx EXCEPT ![p] = NoWlTx]
    /\ wl_loc' = [wl_loc EXCEPT ![p] =
                    Append(@, [call |-> "store",
                               outcome |-> [raised |-> TRUE, status_code |-> 0]])]
    /\ WlFinish(p, 500, InternalError)
    /\ UNCHANGED <<watchlist, watchlist_id_seq, wl_req>>
    /\ UNCHANGED movie_vars

\* The response has gone out.
WlReturn(p) ==
    /\ wl_pc[p] = "done"
    /\ wl_pc' = [wl_pc EXCEPT ![p] = "idle"]
    /\ wl_req' = [wl_req EXCEPT ![p] = NoWlReq]
    /\ wl_loc' = [wl_loc EXCEPT ![p] = <<>>]
    /\ wl_resp' = [wl_resp EXCEPT ![p] = NoResp]
    /\ UNCHANGED <<watchlist, watchlist_id_seq, wl_tx>>
    /\ UNCHANGED movie_vars

\* The handlers await their collaborators, and the service runs on several
\* workers: requests interleave at each of their calls.
NextWl ==
    \E p \in WlProcs :
        \/ WlStart(p)
        \/ add_to_watchlist_validate_user(p)
        \/ add_to_watchlist_validate_movie(p)
        \/ add_to_watchlist_insert(p)
        \/ remove_movie_from_user_watchlist_delete(p)
        \/ watchlist_get_db_connection_commit(p)
        \/ watchlist_get_db_connection_rollback(p)
        \/ WlReturn(p)

WlSpec == Init /\ [][NextWl]_vars

\* ============================================================= claims
Mutations == {"create", "update", "delete"}

\* the step of p with which its create, update or delete succeeds
Succeeds(p, op) ==
    /\ pc[p] = "commit"
    /\ req[p].op = op
    /\ pc'[p] = "done"
    /\ resp'[p].status = 200

\* C1: a present per-id cache entry holds a value the store held for the id
\* no earlier than the last completed create, update or delete of the id.
\* While no create, update or delete of the id is in flight, the store's row
\* of the id has not changed since the last of them completed, so the entry
\* then has to hold the store's current row of the id.
C1_EntryNotOlderThanLastWrite ==
    \A id \in ReqIds :
        (CacheHit(get_cache_key(id)) /\ \A q \in Procs : ~MutatesId(q, id))
            => \E r \in RowsById(movies, id) :
                  redis[get_cache_key(id)].value = json_dumps(r)

\* C2: the collection key, if present, holds the full record set as the store
\* had it no earlier than the last completed create, update or delete.  While
\* none is in flight that is the store's current record set.
C2_CollectionNotOlderThanLastWrite ==
    (CacheHit(get_all_movies_cache_key)
        /\ \A q \in Procs : pc[q] = "idle" \/ req[q].op \notin Mutations)
    => \E rows \in ResultOrders(movies) :
          redis[get_all_movies_cache_key].value = json_dumps_list(rows)

\* C3: a get(id) that starts after a successful update(id, fields) has
\* returned, with no later mutation of id, returns the updated field values.
C3_GetAfterUpdateReturnsUpdate ==
    \A p \in Procs :
        (pc[p] = "done" /\ req[p].op = "get" /\ fresh[p])
            => /\ resp[p].status = 200
               /\ \E r \in RowsById(movies, req[p].movie_id) :
                     resp[p].body = MovieModel(r)

\* p takes a step of its request
Steps(p) == pc'[p] # pc[p] \/ loc'[p] # loc[p]

\* C4: a create that succeeds leaves the persisted record under the per-id
\* key of the id the store assigned, so a get of the id that follows at once
\* is a cache hit and answers with the field values create returned.
C4_CreatePopulatesCache ==
    [][\A p \in Procs :
        Succeeds(p, "create") =>
            LET id == resp'[p].body.id
                cache_key == get_cache_key(id)
            IN /\ RowsById(movies', id) = {loc[p].movie_data}
               /\ cache_key \in DOMAIN redis'
               /\ redis'[cache_key].value = json_dumps(loc[p].movie_data)
               /\ MovieModel(json_loads(redis'[cache_key].value)) = resp'[p].body]_vars

C4_Witness ==
    \E p \in Procs :
        /\ pc[p] = "done" /\ req[p].op = "create" /\ resp[p].status = 200
        /\ resp[p].body.rating = Float(88)
        /\ CacheHit(get_cache_key(resp[p].body.id))

\* C5: when a create, update or delete succeeds, the collection key is absent.
C5_CollectionAbsentAfterWrite ==
    [][\A p \in Procs : \A op \in Mutations :
        Succeeds(p, op) => get_all_movies_cache_key \notin DOMAIN redis']_vars

\* C6: when a delete of id succeeds, the per-id entry of id is absent and the
\* store has no row of id.
C6_DeletedIdNotCached ==
    [][\A p \in Procs :
        Succeeds(p, "delete") =>
            /\ get_cache_key(req[p].movie_id) \notin DOMAIN redis'
            /\ RowsById(movies', req[p].movie_id) = {}]_vars

\* C7: get answers from a present per-id entry, with no statement executed;
\* with the entry absent and a row of the id in the store, get returns that
\* row and leaves it under the per-id key (one request at a time).
C7_GetHitOrPopulate ==
    [][\A p \in Procs :
        LET id == req[p].movie_id
            cache_key == get_cache_key(id)
        IN /\ (pc[p] = "get_cache" /\ Steps(p) /\ CacheHit(cache_key)) =>
                /\ pc'[p] = "done"
                /\ resp'[p] = [status |-> 200,
                               body |-> MovieModel(json_loads(redis[cache_key].value))]
                /\ loc'[p].store_calls = 0
                /\ movies' = movies /\ redis' = redis
           /\ (pc[p] = "get_cache" /\ Steps(p) /\ ~CacheHit(cache_key)) =>
                pc'[p] = "get_select"
           /\ (pc[p] = "get_select" /\ Steps(p) /\ RowsById(movies, id) # {}) =>
                /\ pc'[p] = "get_setex"
                /\ loc'[p].movie_data \in RowsById(movies, id)
           /\ (pc[p] = "get_setex" /\ Steps(p)) =>
                /\ pc'[p] = "commit"
                /\ cache_key \in DOMAIN redis'
                /\ redis'[cache_key].value = json_dumps(loc[p].movie_data)
           /\ (pc[p] = "commit" /\ req[p].op = "get" /\ Steps(p)) =>
                /\ resp'[p] = [status |-> 200, body |-> MovieModel(loc[p].movie_data)]
                /\ loc'[p].store_calls = 1
                /\ loc[p].movie_data \in RowsById(movies', id)
                /\ cache_key \in DOMAIN redis'
                /\ redis'[cache_key].value = json_dumps(loc[p].movie_data)]_vars

C7_WitnessHit ==
    \E p \in Procs :
        /\ pc[p] = "done" /\ req[p].op = "get" /\ resp[p].status = 200
        /\ loc[p].store_calls = 0

C7_Witness ==
    \E p \in Procs :
        /\ pc[p] = "done" /\ req[p].op = "get" /\ resp[p].status = 200
        /\ loc[p].store_calls = 1
        /\ CacheHit(get_cache_key(req[p].movie_id))

\* C8: get of an id that is in neither the cache nor the store fails with
\* NotFound; no step of it writes the cache or the store.
C8_GetNotFoundWritesNothing ==
    [][\A p \in Procs :
        LET id == req[p].movie_id
            cache_key == get_cache_key(id)
        IN /\ (pc[p] = "get_cache" /\ Steps(p) /\ ~CacheHit(cache_key)) =>
                /\ pc'[p] = "get_select"
                /\ redis' = redis /\ movies' = movies
           /\ (pc[p] = "get_select" /\ Steps(p) /\ RowsById(movies, id) = {}) =>
                /\ pc'[p] = "done"
                /\ resp'[p] = [status |-> 404, body |-> NotFound]
                /\ redis' = redis /\ movies' = movies
                /\ tx'[p] = NoTx
                /\ loc'[p].cache_calls = 1]_vars

C8_Witness ==
    \E p \in Procs :
        /\ pc[p] = "done" /\ req[p].op = "get" /\ resp[p].status = 404
        /\ ~CacheHit(get_cache_key(req[p].movie_id))
        /\ movies # {}

\* C9: update and delete of an id with no row in the store fail with NotFound
\* and issue no cache call; the cache and the store are as before.
C9_WriteNotFoundTouchesNothing ==
    [][\A p \in Procs :
        (pc[p] \in {"update_stmt", "delete_stmt"} /\ Steps(p)
            /\ RowsById(movies, req[p].movie_id) = {}) =>
                /\ pc'[p] = "done"
                /\ resp'[p] = [status |-> 404, body |-> NotFound]
                /\ loc'[p].cache_calls = 0
                /\ redis' = redis /\ movies' = movies
                /\ tx'[p] = NoTx]_vars

C9_Witness ==
    /\ \E p \in Procs :
        /\ pc[p] = "done" /\ req[p].op = "update" /\ resp[p].status = 404
    /\ CacheHit(get_all_movies_cache_key)

C9_WitnessDelete ==
    /\ \E p \in Procs :
        /\ pc[p] = "done" /\ req[p].op = "delete" /\ resp[p].status = 404
    /\ \E id \in ReqIds : CacheHit(get_cache_key(id))

\* C10: a batch lookup answers with a record for each id of its input that is
\* in the cache or in the store, and with none for an id that is in neither;
\* it is no error.  For an input of distinct ids the output has as many
\* records as ids are in the cache or in the store.
Present(id) == CacheHit(get_cache_key(id)) \/ RowsById(movies, id) # {}

Distinct(ids) == \A i, j \in DOMAIN ids : ids[i] = ids[j] => i = j

C10_BatchOmitsMissing ==
    \A p \in Procs :
        (pc[p] = "done" /\ req[p].op = "batch") =>
            LET ids == req[p].movie_ids
                body == resp[p].body
                found == {id \in Range(ids) : Present(id)}
            IN /\ resp[p].status = 200
               /\ {body[i].id : i \in DOMAIN body} = found
               /\ \A i \in DOMAIN body :
                     \E r \in RowsById(movies, body[i].id) : body[i] = MovieModel(r)
               /\ Len(body) >= Cardinality(found)
               /\ Distinct(ids) => Len(body) = Cardinality(found)

\* getBatch([id_in_cache, id_only_in_store, id_nowhere]) has returned two records
C10_Witness ==
    \E p \in Procs :
        /\ pc[p] = "done" /\ req[p].op = "batch"
        /\ Len(req[p].movie_ids) = 3 /\ Distinct(req[p].movie_ids)
        /\ Len(loc[p].uncached_ids) = 2
        /\ loc[p].uncached_ids[1] = req[p].movie_ids[2]
        /\ Len(loc[p].results) = 1
        /\ loc[p].results[1].id = req[p].movie_ids[2]
        /\ Len(resp[p].body) = 2
        /\ Len(resp[p].body) < Len(req[p].movie_ids)

\* C11: a batch lookup executes no statement when every id is a cache hit,
\* and otherwise one statement, which asks for exactly the ids that missed:
\* a probe that hits adds nothing to the ids to ask for, a probe that misses
\* adds its id, and the one SELECT returns the rows of those ids.
C11_BatchOneQueryForMisses ==
    [][\A p \in Procs :
        LET ids == req[p].movie_ids
        IN /\ (pc[p] = "batch_probe" /\ ids # <<>> /\ Steps(p)) =>
                LET movie_id == ids[loc[p].i]
                IN /\ loc'[p].store_calls = 0
                   /\ loc'[p].uncached_ids =
                         IF CacheHit(get_cache_key(movie_id))
                         THEN loc[p].uncached_ids
                         ELSE Append(loc[p].uncached_ids, movie_id)
                   /\ pc'[p] \in {"batch_probe", "batch_select", "done"}
                   /\ pc'[p] = "batch_probe" <=> loc[p].i < Len(ids)
                   /\ pc'[p] = "done" => loc'[p].uncached_ids = <<>>
                   /\ pc'[p] = "batch_select" => loc'[p].uncached_ids # <<>>
           /\ (pc[p] = "batch_select" /\ Steps(p)) =>
                /\ loc'[p].store_calls = 1
                /\ loc'[p].uncached_ids = loc[p].uncached_ids
                /\ Range(loc'[p].results) =
                      {r \in movies : r.id \in Range(loc[p].uncached_ids)}
           /\ (req[p].op = "batch" /\ pc[p] \in {"batch_setex", "commit"} /\ Steps(p)) =>
                /\ loc'[p].store_calls = 1
                /\ loc'[p].uncached_ids = loc[p].uncached_ids]_vars

\* a batch lookup with hits and misses has asked the store once, for fewer
\* ids than it was given
C11_Witness ==
    \E p \in Procs :
        /\ pc[p] = "done" /\ req[p].op = "batch"
        /\ loc[p].store_calls = 1
        /\ loc[p].uncached_ids # <<>>
        /\ Len(loc[p].uncached_ids) < Len(req[p].movie_ids)
        /\ loc[p].results # <<>>

\* a batch lookup of several ids, each a cache hit, has executed no statement
C11_WitnessAllHits ==
    \E p \in Procs :
        /\ pc[p] = "done" /\ req[p].op = "batch"
        /\ Len(req[p].movie_ids) >= 2
        /\ loc[p].store_calls = 0

\* C12: a batch lookup of the empty id list answers with the empty list and
\* makes no cache call and executes no statement.
C12_EmptyBatchTouchesNothing ==
    [][\A p \in Procs :
        (pc[p] = "batch_probe" /\ req[p].movie_ids = <<>> /\ Steps(p)) =>
            /\ pc'[p] = "done"
            /\ resp'[p] = [status |-> 200, body |-> <<>>]
            /\ loc'[p].cache_calls = 0
            /\ loc'[p].cache_writes = 0
            /\ loc'[p].store_calls = 0
            /\ redis' = redis /\ movies' = movies /\ tx' = tx]_vars

C12_Witness ==
    \E p \in Procs :
        /\ pc[p] = "done" /\ req[p].op = "batch" /\ req[p].movie_ids = <<>>
        /\ resp[p] = [status |-> 200, body |-> <<>>]
        /\ movies # {} /\ redis # <<>>

\* s lists the elements of a and of b, each in its own order
RECURSIVE Interleaves(_, _, _)
Interleaves(s, a, b) ==
    IF s = <<>> THEN a = <<>> /\ b = <<>>
    ELSE \/ a # <<>> /\ Head(a) = Head(s) /\ Interleaves(Tail(s), Tail(a), b)
         \/ b # <<>> /\ Head(b) = Head(s) /\ Interleaves(Tail(s), a, Tail(b))

\* C13: the output of a batch lookup is the cache hits, in the order of their
\* ids in the input, followed by the rows the store returned, in the order
\* the store returned them; it is not put back into the order of the input.
C13_BatchHitsThenStoreRows ==
    \A p \in Procs :
        (pc[p] = "done" /\ req[p].op = "batch" /\ resp[p].status = 200) =>
            LET ids == req[p].movie_ids
                body == resp[p].body
                results == loc[p].results
                nhits == Len(ids) - Len(loc[p].uncached_ids)
            IN /\ Len(body) = nhits + Len(results)
               /\ Interleaves(ids, [j \in 1..nhits |-> body[j].id], loc[p].uncached_ids)
               /\ \A j \in 1..Len(results) : body[nhits + j] = MovieModel(results[j])

\* the input named a store-only id before a cached id: the output has the
\* cached record first
C13_Witness ==
    \E p \in Procs :
        /\ pc[p] = "done" /\ req[p].op = "batch" /\ resp[p].status = 200
        /\ Len(req[p].movie_ids) = 2 /\ Len(resp[p].body) = 2
        /\ Len(loc[p].uncached_ids) = 1 /\ Len(loc[p].results) = 1
        /\ loc[p].uncached_ids[1] = req[p].movie_ids[1]
        /\ resp[p].body[1].id = req[p].movie_ids[2]
        /\ resp[p].body[2].id = req[p].movie_ids[1]
        /\ req[p].movie_ids[1] # req[p].movie_ids[2]

\* C14: a batch lookup writes the cache once for each row its SELECT returned,
\* under the key of the row's id and with the row as value; no other step of
\* it changes the cache, and no step of it changes the collection key.
C14_BatchCachesFetchedRowsOnly ==
    [][\A p \in Procs :
        (req[p].op = "batch" /\ Steps(p)) =>
            /\ pc[p] \in {"batch_probe", "batch_select", "commit", "done"} =>
                  /\ redis' = redis
                  /\ pc[p] # "done" => loc'[p].cache_writes = loc[p].cache_writes
            /\ pc[p] = "batch_select" =>
                  /\ loc'[p].i = 1
                  /\ loc'[p].cache_writes = 0
                  /\ pc'[p] = "batch_setex" <=> loc'[p].results # <<>>
            /\ pc[p] = "batch_setex" =>
                  LET row == loc[p].results[loc[p].i]
                      cache_key == get_cache_key(row.id)
                  IN /\ row \in movies
                     /\ cache_key \in DOMAIN redis'
                     /\ redis'[cache_key] = [value |-> json_dumps(row), ttl |-> CACHE_TTL]
                     /\ \A k \in (DOMAIN redis \cup DOMAIN redis') \ {cache_key} :
                           /\ k \in DOMAIN redis /\ k \in DOMAIN redis'
                           /\ redis'[k] = redis[k]
                     /\ loc'[p].i = loc[p].i + 1
                     /\ loc'[p].cache_writes = loc[p].i
                     /\ pc'[p] = "commit" <=> loc[p].i = Len(loc[p].results)
            /\ pc[p] = "commit" => loc[p].cache_writes = Len(loc[p].results)]_vars

\* next to a cached listing, a batch lookup of an id with a row and an id
\* with none has written one entry
C14_Witness ==
    \E p \in Procs :
        /\ pc[p] = "done" /\ req[p].op = "batch"
        /\ Len(loc[p].uncached_ids) = 2 /\ Len(loc[p].results) = 1
        /\ loc[p].cache_writes = 1
        /\ CacheHit(get_cache_key(loc[p].results[1].id))
        /\ \E j \in 1..2 : ~CacheHit(get_cache_key(loc[p].uncached_ids[j]))
        /\ CacheHit(get_all_movies_cache_key)

\* next to a cached listing, a batch lookup with a hit and a fetched row has
\* written one entry
C14_WitnessHit ==
    \E p \in Procs :
        /\ pc[p] = "done" /\ req[p].op = "batch"
        /\ Len(req[p].movie_ids) = 2
        /\ Len(loc[p].uncached_ids) = 1 /\ Len(loc[p].results) = 1
        /\ loc[p].cache_writes = 1
        /\ CacheHit(get_all_movies_cache_key)

\* C15: the listing of every record answers from a present collection key,
\* an empty cached listing included, with no statement executed; with the key
\* absent it selects every row, writes that listing under the collection key
\* and returns it (one request at a time).
C15_ListAllHitOrPopulate ==
    [][\A p \in Procs :
        LET cache_key == get_all_movies_cache_key
        IN /\ (pc[p] = "list_cache" /\ Steps(p) /\ CacheHit(cache_key)) =>
                /\ pc'[p] = "done"
                /\ resp'[p] = [status |-> 200,
                               body |-> MovieModelList(json_loads(redis[cache_key].value))]
                /\ loc'[p].store_calls = 0
                /\ movies' = movies /\ redis' = redis
           /\ (pc[p] = "list_cache" /\ Steps(p) /\ ~CacheHit(cache_key)) =>
                pc'[p] = "list_select"
           /\ (pc[p] = "list_select" /\ Steps(p)) =>
                /\ pc'[p] = "list_setex"
                /\ loc'[p].movies \in ResultOrders(movies)
                /\ loc'[p].store_calls = 1
           /\ (pc[p] = "list_setex" /\ Steps(p)) =>
                /\ pc'[p] = "commit"
                /\ cache_key \in DOMAIN redis'
                /\ redis'[cache_key] =
                      [value |-> json_dumps_list(loc[p].movies), ttl |-> CACHE_TTL]
           /\ (pc[p] = "commit" /\ req[p].op = "list" /\ ~Truthy(req[p].genre)
                    /\ Steps(p)) =>
                /\ resp'[p] = [status |-> 200, body |-> MovieModelList(loc[p].movies)]
                /\ loc'[p].store_calls = 1
                /\ loc[p].movies \in ResultOrders(movies')
                /\ cache_key \in DOMAIN redis'
                /\ redis'[cache_key].value = json_dumps_list(loc[p].movies)]_vars

\* the listing was answered from a cached empty listing
C15_Witness ==
    \E p \in Procs :
        /\ pc[p] = "done" /\ req[p].op = "list" /\ req[p].genre = NoGenre
        /\ resp[p] = [status |-> 200, body |-> <<>>]
        /\ loc[p].store_calls = 0 /\ loc[p].cache_calls = 1
        /\ CacheHit(get_all_movies_cache_key)

\* the listing was fetched from the store and cached
C15_WitnessMiss ==
    \E p \in Procs :
        /\ pc[p] = "done" /\ req[p].op = "list" /\ req[p].genre = NoGenre
        /\ resp[p].status = 200 /\ Len(resp[p].body) = 2
        /\ loc[p].store_calls = 1 /\ loc[p].cache_writes = 1
        /\ CacheHit(get_all_movies_cache_key)

\* C16: a listing by genre, whatever the genre argument, makes no cache call
\* and executes a statement on every call; it leaves the cache as it was.
C16_ListByGenreBypassesCache ==
    [][\A p \in Procs :
        (req[p].op = "list" /\ req[p].genre # NoGenre /\ Steps(p)) =>
            /\ redis' = redis
            /\ pc[p] # "done" => loc'[p].cache_calls = 0
            /\ pc'[p] = "done" => loc'[p].store_calls = 1]_vars

\* the update of p has written its row and has not committed yet
UpdateWritten(p) == req[p].op = "update" /\ tx[p].kind = "update"

\* C17: two updates of one record that are in flight together interleave
\* freely, so that their cache writes can land in the opposite order to
\* their store writes.  For that order the update that writes the store
\* second has to write the cache first: it has to execute its statement
\* while the first has written the store and not yet finished.
C17_ConcurrentUpdatesInterleave ==
    \A p, q \in Procs :
        (/\ p # q
         /\ UpdateWritten(p)
         /\ pc[q] = "update_stmt" /\ req[q].movie_id = req[p].movie_id)
            => ENABLED update_movie_stmt(q)

\* the state C17 describes: both updates have completed, the store holds the
\* value of one and the per-id entry the value of the other
C17_OppositeOrder ==
    \E p, q \in Procs :
        /\ p # q
        /\ pc[p] = "done" /\ req[p].op = "update" /\ resp[p].status = 200
        /\ pc[q] = "done" /\ req[q].op = "update" /\ resp[q].status = 200
        /\ req[p].movie_id = req[q].movie_id
        /\ loc[p].movie_data # loc[q].movie_data
        /\ RowsById(movies, req[q].movie_id) = {loc[q].movie_data}
        /\ CacheHit(get_cache_key(req[p].movie_id))
        /\ redis[get_cache_key(req[p].movie_id)].value = json_dumps(loc[p].movie_data)

\* that state is never reached: the row lock orders the two updates, and
\* each writes the cache before it commits
C17_NeverOppositeOrder == ~C17_OppositeOrder

\* C18: create, update and delete commit their store write first and write
\* or delete the per-id entry and invalidate the collection key afterwards:
\* when the request writes the cache, its transaction has nothing left to
\* commit.
C18_CommitBeforeCacheWrite ==
    [][\A p \in Procs :
        (req[p].op \in Mutations /\ Steps(p)
            /\ loc'[p].cache_writes > loc[p].cache_writes) =>
                tx[p] = NoTx]_vars

\* the call of p that raises with this step
Raises(p, call) == loc[p].exc = "none" /\ loc'[p].exc = call

\* C19: when a store call of a request fails (connect, statement or commit)
\* the request fails, the store is as before, and the request has written
\* nothing to the cache.
C19_StoreFailureLeavesCache ==
    [][\A p \in Procs :
        Raises(p, "store") =>
            /\ pc'[p] = "done"
            /\ resp'[p] = [status |-> 500, body |-> InternalError]
            /\ tx'[p] = NoTx
            /\ movies' = movies
            /\ loc[p].cache_writes = 0]_vars

\* C20: when a cache call of a request fails the request fails; a get, a
\* batch lookup or a listing whose cache read fails executes no statement
\* and answers with the failure.
C20_CacheFailureNotMasked ==
    [][\A p \in Procs :
        /\ Raises(p, "cache") =>
              /\ pc'[p] = "done"
              /\ resp'[p] = [status |-> 500, body |-> InternalError]
              /\ tx'[p] = NoTx
              /\ movies' = movies /\ redis' = redis
              /\ loc'[p].store_calls = loc[p].store_calls
              /\ pc[p] \in {"get_cache", "batch_probe", "list_cache"} =>
                    loc[p].store_calls = 0
        /\ (loc[p].exc = "cache" /\ Steps(p)) =>
              pc[p] = "done" /\ pc'[p] = "idle"]_vars

\* the cache read of a get failed while the store had the row: the get
\* failed and asked the store nothing
C20_Witness ==
    \E p \in Procs :
        /\ pc[p] = "done" /\ req[p].op = "get" /\ loc[p].exc = "cache"
        /\ resp[p].status = 500
        /\ loc[p].cache_calls = 0 /\ loc[p].store_calls = 0
        /\ RowsById(movies, req[p].movie_id) # {}

\* a cache write of an update failed: the update failed and its row is not
\* in the store
C20_WitnessWrite ==
    \E p \in Procs :
        /\ pc[p] = "done" /\ req[p].op = "update" /\ loc[p].exc = "cache"
        /\ resp[p].status = 500
        /\ loc[p].store_calls = 1
        /\ loc[p].movie_data \notin movies

\* the key the next call of the request of p writes with setex, if any
SetexKey(p) ==
    CASE pc[p] \in {"create_setex", "update_setex"}
            -> {get_cache_key(loc[p].movie_data.id)}
      [] pc[p] = "get_setex" -> {get_cache_key(req[p].movie_id)}
      [] pc[p] = "batch_setex" -> {get_cache_key(loc[p].results[loc[p].i].id)}
      [] pc[p] = "list_setex" -> {get_all_movies_cache_key}
      [] OTHER -> {}

\* C21: every cache write, of create, update, get, the batch lookup and the
\* listing, gives its entry the time to live CACHE_TTL; a cache read leaves
\* every entry's remaining time as it is; the remaining time of an entry
\* that is not rewritten goes down with the clock only, and the entry is
\* gone when it is used up.
C21_FixedTtlNoSliding ==
    [][/\ \A p \in Procs : Steps(p) =>
            /\ \A k \in SetexKey(p) :
                  k \in DOMAIN redis' /\ redis'[k].ttl = CACHE_TTL
            /\ pc[p] \in {"get_cache", "batch_probe", "list_cache"} => redis' = redis
            /\ \A k \in (DOMAIN redis \cap DOMAIN redis') \ SetexKey(p) :
                  redis'[k] = redis[k]
       /\ (\A p \in Procs : ~Steps(p)) =>
            \A k \in DOMAIN redis :
                IF redis[k].ttl > TickLen
                THEN /\ k \in DOMAIN redis'
                     /\ redis'[k] = [redis[k] EXCEPT !.ttl = @ - TickLen]
                ELSE k \notin DOMAIN redis'
       /\ \A k \in DOMAIN redis' :
            redis'[k].ttl > 0 /\ redis'[k].ttl <= CACHE_TTL]_vars

\* a get was answered from an entry part of whose time was used up, and the
\* entry's remaining time is still the shorter one
C21_Witness ==
    \E p \in Procs :
        /\ pc[p] = "done" /\ req[p].op = "get" /\ resp[p].status = 200
        /\ loc[p].store_calls = 0
        /\ CacheHit(get_cache_key(req[p].movie_id))
        /\ redis[get_cache_key(req[p].movie_id)].ttl < CACHE_TTL

\* the ids of the rows of a table
IdsOf(table) == {r.id : r \in table}

\* C22: the store never has two rows of one id: a create commits a row whose
\* id no row had, and an update commits its row under the id it was asked
\* to update, whatever id its request body carries, so that the ids in the
\* store are the same before and after it.
C22_OneRecordPerIdStableId ==
    [][/\ \A r1, r2 \in movies' : r1.id = r2.id => r1 = r2
       /\ \A p \in Procs :
            /\ Succeeds(p, "create") =>
                  /\ loc[p].movie_data.id \notin IdsOf(movies)
                  /\ movies' = movies \cup {loc[p].movie_data}
            /\ Succeeds(p, "update") =>
                  /\ IdsOf(movies') = IdsOf(movies)
                  /\ loc[p].movie_data.id = req[p].movie_id
                  /\ RowsById(movies', req[p].movie_id) = {loc[p].movie_data}
                  /\ \A r \in movies : r.id # req[p].movie_id => r \in movies']_vars

\* an update whose body carries another id than the one it updates has
\* succeeded, next to a second record
C22_Witness ==
    \E p \in Procs :
        /\ pc[p] = "done" /\ req[p].op = "update" /\ resp[p].status = 200
        /\ req[p].movie.id \notin {NoId, req[p].movie_id}
        /\ resp[p].body.id = req[p].movie_id
        /\ Cardinality(movies) = 2

Quiet == \A p \in Procs : req[p].op \notin Mutations

\* every entry of the cache holds what the store holds
CacheAgrees ==
    /\ \A id \in ReqIds :
            CacheHit(get_cache_key(id)) =>
                \E r \in movies : /\ r.id = id
                                  /\ redis[get_cache_key(id)].value = json_dumps(r)
    /\ CacheHit(get_all_movies_cache_key) =>
            \E rows \in ResultOrders(movies) :
                redis[get_all_movies_cache_key].value = json_dumps_list(rows)

\* a finished get_movie or unfiltered get_movies has answered with the
\* store's rows
ReadsCurrent ==
    \A p \in Procs :
        /\ (pc[p] = "done" /\ req[p].op = "get" /\ resp[p].status = 200) =>
                \E r \in movies : /\ r.id = req[p].movie_id
                                  /\ resp[p].body = MovieModel(r)
        /\ (pc[p] = "done" /\ req[p].op = "get" /\ resp[p].status = 404) =>
                RowsById(movies, req[p].movie_id) = {}
        /\ (pc[p] = "done" /\ req[p].op = "list" /\ req[p].genre = NoGenre
                /\ resp[p].status = 200) =>
                \E rows \in ResultOrders(movies) :
                    resp[p].body = MovieModelList(rows)

\* C24: entries expire whatever becomes of their records.  When from some
\* point on no create, update or delete is in flight, every entry that
\* differs from the store is removed in the end, and from then on get_movie
\* and the unfiltered get_movies answer with the store's current state.
C24_StalenessIsTemporary == <>[]Quiet => <>[](CacheAgrees /\ ReadsCurrent)

\* no request is in flight and the cache holds an entry the store does not
C24_Witness == (\A p \in Procs : pc[p] = "idle") /\ ~CacheAgrees

\* a get_movie has answered from an entry the store does not hold
C24_WitnessStaleRead == Quiet /\ ~ReadsCurrent

\* the request of p is inside its with get_db_connection() block, or about
\* to enter it
InBlock(p) == pc[p] \notin {"idle", "done", "get_cache", "batch_probe", "list_cache"}

\* C25: a request that calls the store runs one transaction on a connection
\* of its own.  The transaction is committed when the body of the block has
\* run to its end without raising, and only then; when the body raises (the
\* 404 of get_movie, update_movie and delete_movie included) it is rolled
\* back and the error is the response.  Either way the connection ends with
\* the request: nothing of the transaction is left pending.
C25_OneTransactionCommitOrRollback ==
    [][\A p \in Procs :
        Steps(p) =>
            /\ loc'[p].store_calls <= 1
            /\ pc'[p] # "done" => movies' = movies
            /\ (pc'[p] = "done" /\ InBlock(p)) =>
                /\ tx'[p] = NoTx
                /\ IF pc[p] = "commit" /\ loc'[p].exc = "none"
                   THEN /\ movies' = Committed(movies, tx[p])
                        /\ resp'[p] = [status |-> 200, body |-> Body(p)]
                   ELSE /\ movies' = movies
                        /\ resp'[p] \in {[status |-> 404, body |-> NotFound],
                                         [status |-> 500, body |-> InternalError]}]_vars

\* a create_movie whose INSERT ran was rolled back by a failing cache call:
\* the sequence has moved on and the store holds no record
C25_Witness ==
    \E p \in Procs :
        /\ pc[p] = "done" /\ req[p].op = "create" /\ resp[p].status = 500
        /\ loc[p].store_calls = 1 /\ loc[p].exc = "cache"
        /\ id_seq = 2 /\ movies = {} /\ tx[p] = NoTx

\* an update_movie of an id without a row was rolled back with a 404
C25_WitnessNotFound ==
    \E p \in Procs :
        /\ pc[p] = "done" /\ req[p].op = "update" /\ resp[p].status = 404
        /\ loc[p].store_calls = 1 /\ tx[p] = NoTx /\ movies # {}

\* C26: with one request at a time and no call failing, between requests
\* every per-record entry of the cache is the store's row of its id (so
\* there is none for an id without a row), and the cached listing, when
\* there is one, is the store's whole table.
C26_SequentialCacheAgrees ==
    (\A p \in Procs : pc[p] \in {"idle", "done"}) => CacheAgrees

\* an update_movie has completed next to a second cached record
C26_Witness ==
    \E p \in Procs :
        /\ pc[p] = "done" /\ req[p].op = "update" /\ resp[p].status = 200
        /\ \A id \in IdsOf(movies) : CacheHit(get_cache_key(id))
        /\ Cardinality(movies) = 2

\* the listing is cached while the store holds records
C26_WitnessListing ==
    /\ \A p \in Procs : pc[p] = "idle"
    /\ CacheHit(get_all_movies_cache_key) /\ Cardinality(movies) = 2

\* C27: while get_movie and get_movies_batch run next to a delete_movie of
\* the same id, whenever no request is in flight the cache has no
\* per-record entry for an id without a row in the store.
C27_NoEntryWithoutRow ==
    (\A p \in Procs : pc[p] = "idle") =>
        \A id \in ReqIds :
            CacheHit(get_cache_key(id)) => RowsById(movies, id) # {}

\* the request of p has inserted a row it has not committed: its id comes
\* fresh from the sequence, so the store has never held a committed row of it
InsertPending(p) == tx[p].kind = "insert"

\* C28: what the cache holds and what get_movie, get_movies_batch and
\* get_movies return was a committed value of the store at some point.  So
\* for a row whose INSERT has not committed, the cache has no entry under its
\* id and no finished read has returned a record of its id.
C28_OnlyCommittedValues ==
    \A p \in Procs :
        InsertPending(p) =>
            /\ ~CacheHit(get_cache_key(tx[p].id))
            /\ \A q \in Procs :
                (pc[q] = "done" /\ req[q].op = "get" /\ resp[q].status = 200) =>
                    resp[q].body.id # tx[p].id

\* C29: when a cache call of create_movie, update_movie or delete_movie
\* raises after the statement has run, the transaction is rolled back and
\* the store is as it was; and the cache is left with no entry, under the id
\* of the request, that holds a value the store does not hold.
C29_CacheFailureLeavesNoPhantom ==
    [][\A p \in Procs :
        (Raises(p, "cache") /\ req[p].op \in Mutations /\ loc[p].store_calls = 1) =>
            /\ movies' = movies
            /\ tx'[p] = NoTx
            /\ get_cache_key(tx[p].id) \in DOMAIN redis' =>
                    \E r \in movies' :
                        /\ r.id = tx[p].id
                        /\ redis'[get_cache_key(tx[p].id)].value = json_dumps(r)]_vars

\* how many times id stands in the sequence ids
Occurrences(ids, id) == Cardinality({i \in DOMAIN ids : ids[i] = id})

\* C30: in the output of a batch lookup a record stands once for each
\* occurrence of its id in the input that was a cache hit, and once more,
\* however often the id missed, when the id missed and the store has its
\* row.  For an input with a repeated id the length of the output so
\* depends on what the cache holds.
C30_BatchDuplicateIds ==
    \A p \in Procs :
        (pc[p] = "done" /\ req[p].op = "batch" /\ resp[p].status = 200) =>
            \A id \in ReqIds :
                LET ids == req[p].movie_ids
                    uncached_ids == loc[p].uncached_ids
                    body == resp[p].body
                    hits == Occurrences(ids, id) - Occurrences(uncached_ids, id)
                    fetched == IF /\ Occurrences(uncached_ids, id) >= 1
                                  /\ RowsById(movies, id) # {}
                               THEN 1 ELSE 0
                IN Cardinality({i \in DOMAIN body : body[i].id = id}) = hits + fetched

\* a batch lookup that named the same id twice missed both times and has
\* returned its record once
C30_Witness ==
    \E p \in Procs :
        /\ pc[p] = "done" /\ req[p].op = "batch" /\ resp[p].status = 200
        /\ Len(req[p].movie_ids) = 2
        /\ req[p].movie_ids[1] = req[p].movie_ids[2]
        /\ loc[p].uncached_ids = req[p].movie_ids
        /\ Len(resp[p].body) = 1

\* the same input with its id in the cache has returned the record twice
C30_WitnessHits ==
    \E p \in Procs :
        /\ pc[p] = "done" /\ req[p].op = "batch" /\ resp[p].status = 200
        /\ Len(req[p].movie_ids) = 2
        /\ req[p].movie_ids[1] = req[p].movie_ids[2]
        /\ loc[p].uncached_ids = <<>>
        /\ RowsById(movies, req[p].movie_ids[1]) # {}
        /\ Len(resp[p].body) = 2

\* the request of p takes a step
WlSteps(p) == wl_pc'[p] # wl_pc[p]

\* the collaborator answered 200
Exists(c) == ~c.outcome.raised /\ c.outcome.status_code = 200

\* C31: add_to_watchlist inserts a row only after the check of the user and
\* then the check of the movie have both succeeded; a collaborator that
\* answers with another status or cannot be reached counts as not found: the
\* response is 404 and nothing is inserted.  The table never holds two rows
\* of one (user_id, movie_id): an add of a pair the table holds answers 409
\* and leaves the table as it was, also with two adds of the pair in flight
\* together.
C31_AddValidatesThenInsertsOnce ==
    [][/\ \A e1, e2 \in watchlist' : Pair(e1) = Pair(e2) => e1 = e2
       /\ \A p \in WlProcs :
            (wl_req[p].op = "add" /\ WlSteps(p)) =>
                LET entry == wl_req[p].entry
                    calls == wl_loc'[p]
                IN /\ (wl_pc[p] = "add_insert" /\ calls = wl_loc[p]) =>
                        /\ Len(calls) = 2
                        /\ calls[1].call = "user" /\ Exists(calls[1])
                        /\ calls[2].call = "movie" /\ Exists(calls[2])
                   /\ (wl_pc[p] \in {"add_validate_user", "add_validate_movie"}
                            /\ ~Exists(calls[Len(calls)])) =>
                        /\ wl_pc'[p] = "done"
                        /\ wl_resp'[p].status = 404
                        /\ watchlist' = watchlist /\ wl_tx'[p] = NoWlTx
                        /\ watchlist_id_seq' = watchlist_id_seq
                   /\ (wl_pc[p] = "add_insert" /\ calls = wl_loc[p]
                            /\ RowsByPair(watchlist, entry) # {}) =>
                        /\ wl_resp'[p] = [status |-> 409, body |-> AlreadyInWatchlist]
                        /\ watchlist' = watchlist /\ wl_tx'[p] = NoWlTx
                   /\ (wl_pc[p] = "add_insert" /\ calls = wl_loc[p]
                            /\ RowsByPair(watchlist, entry) = {}) =>
                        /\ wl_tx'[p].kind = "insert"
                        /\ Pair(wl_tx'[p].row) = Pair(entry)
                        /\ watchlist' = watchlist
                   /\ (wl_pc[p] = "add_commit" /\ calls = wl_loc[p]) =>
                        /\ watchlist' = watchlist \cup {wl_tx[p].row}
                        /\ wl_resp'[p] = [status |-> 200, body |-> wl_tx[p].row]]_vars

\* two adds of one pair were in flight together: one has inserted the pair,
\* the other was answered 409, and the table holds the pair once
C31_Witness ==
    \E p, q \in WlProcs :
        /\ p # q
        /\ wl_pc[p] = "done" /\ wl_req[p].op = "add" /\ wl_resp[p].status = 200
        /\ wl_pc[q] = "done" /\ wl_req[q].op = "add" /\ wl_resp[q].status = 409
        /\ Pair(wl_req[p].entry) = Pair(wl_req[q].entry)
        /\ Cardinality(RowsByPair(watchlist, wl_req[p].entry)) = 1

\* the movie service could not be reached after the user was found: 404,
\* and the table is empty
C31_WitnessUnreachable ==
    \E p \in WlProcs :
        /\ wl_pc[p] = "done" /\ wl_req[p].op = "add" /\ wl_resp[p].status = 404
        /\ Len(wl_loc[p]) = 2 /\ wl_loc[p][2].outcome.raised
        /\ watchlist = {}

====
